---- MODULE Spec2Model ----
(***************************************************************************)
(* A model of ibag's thread-confined cell, iCell<T> (src/src/cell.rs).     *)
(*                                                                         *)
(* A cell is a payload plus an Arc<Mutex<CellGuard>> ownership record      *)
(* {freeze, thread_id}.  Threads call the cell's methods; every method     *)
(* that touches the record does so under the record's mutex.  The model    *)
(* keeps the steps at which threads can interleave: the start of a call,   *)
(* each critical section of the mutex, and the step in which the caller    *)
(* acts on the verdict it read.                                            *)
(*                                                                         *)
(* Who may call what follows Rust's borrow rules: a cell is held by value  *)
(* by one thread (holder), which may lend shared references to other       *)
(* threads (the type is declared Sync); &self methods need a shared        *)
(* borrow, &mut self and self methods need the cell exclusively.           *)
(***************************************************************************)
EXTENDS Naturals, FiniteSets, Sequences, TLC

\* ---- bounds of the model ------------------------------------------------
NumThreads == 3
MaxCells == 2
MaxOps == 4
BagThreads == 2
BagCalls == 2
MaxBags == 2

Threads == 1..NumThreads
Cells == 1..MaxCells
NoThread == NumThreads + 1

VARIABLES
    \* the cell: payload and ownership record
    state,       \* [Cells -> "absent" | "live" | "moved_out" | "dropped"]
    value,       \* [Cells -> BOOLEAN], iCell.value (a bool payload, as in the tests)
    freeze,      \* [Cells -> BOOLEAN], CellGuard.freeze
    thread_id,   \* [Cells -> Threads], CellGuard.thread_id
    mutex,       \* [Cells -> Threads \cup {NoThread}], who holds the record's Mutex
    needs_drop,  \* BOOLEAN, mem::needs_drop::<T>() of the payload type
    \* where the cell is and who borrows it
    holder,      \* [Cells -> Threads], the thread holding the cell by value
    sharers,     \* [Cells -> SUBSET Threads], threads lent a shared reference
    refs,        \* [Cells -> [Threads -> "none" | "shared" | "mut"]], payload
                 \* references returned by an accessor and still in use
    \* the threads
    pc,          \* [Threads -> position in the running call]
    op,          \* [Threads -> the method being called]
    cur,         \* [Threads -> Cells], the cell the call is on
    other,       \* [Threads -> Cells], the right-hand operand of a comparison
    owner,       \* [Threads -> Threads], is_valid's local `owner`
    last,        \* the call that returned in the step just taken, NoCall if none
                 \* did: [t, op, c, res, val]; val is the set holding the
                 \* payload handed to the caller, if any
    aborted,     \* BOOLEAN, the process aborted (panic while panicking)
    \* history
    creator,     \* [Cells -> Threads], the thread that ran iCell::new
    init_freeze, \* [Cells -> BOOLEAN], the freeze argument of iCell::new
    ok_takes,    \* [Cells -> 0..2], successful take_ownership calls (capped)
    taker,       \* [Cells -> Threads \cup {NoThread}], whose take_ownership returned Ok last
    after_take,  \* [Threads -> BOOLEAN], the running call began after a
                 \* take_ownership on its cell had returned Ok
    torn_by,     \* [Cells -> Threads \cup {NoThread}], who ran the payload's teardown
    teardowns,   \* [Cells -> 0..2], payload teardowns run by the cell (capped)
    ops,         \* calls and hand-overs started so far
    \* the bag, iBag<T> (src/src/lib.rs): handles onto an Arc<RwLock<T>>
    inner,       \* sequence of allocations: inner[h] is the Arc that handle h holds
    bag_value,   \* [Inners -> Nat], the T inside the RwLock
    writer,      \* [Inners -> the thread holding the write guard, or NoThread]
    readers,     \* [Inners -> the set of threads holding a read guard]
    bpc,         \* [BagUsers -> position in the running call on the bag]
    bop,         \* [BagUsers -> the method being called]
    bh,          \* [BagUsers -> the handle the call is made through]
    btmp,        \* [BagUsers -> Nat], the closure's local (the operand of += or =)
    calls,       \* [BagUsers -> calls completed]
    blast,       \* the call on the bag that returned in the step just taken
    \* history of the bag
    bag_init,    \* the value given to iBag::new
    written      \* [h, v]: the write completed last, its handle and its value

cellVars == <<state, value, freeze, thread_id, mutex, needs_drop>>
borrowVars == <<holder, sharers, refs>>
threadVars == <<pc, op, cur, other, owner, after_take, aborted>>
histVars == <<creator, init_freeze, ok_takes, taker, torn_by, teardowns>>
vars == <<cellVars, borrowVars, threadVars, last, histVars, ops>>
bagVars == <<inner, bag_value, writer, readers, bpc, bop, bh, btmp, calls, blast,
             bag_init, written>>
allVars == <<vars, bagVars>>

BagUsers == 1..BagThreads
Inners == 1..MaxBags
NoBagCall == [t |-> 1, op |-> "none", h |-> 1, res |-> 0]

\* The state after iBag::new(v): one handle onto one allocation, nothing locked.
BagNew(v) ==
    /\ inner = <<1>>
    /\ bag_value = [i \in Inners |-> IF i = 1 THEN v ELSE 0]
    /\ writer = [i \in Inners |-> NoThread]
    /\ readers = [i \in Inners |-> {}]
    /\ bpc = [u \in BagUsers |-> "idle"]
    /\ bop = [u \in BagUsers |-> "none"]
    /\ bh = [u \in BagUsers |-> 1]
    /\ btmp = [u \in BagUsers |-> 0]
    /\ calls = [u \in BagUsers |-> 0]
    /\ blast = [t |-> 1, op |-> "new", h |-> 1, res |-> v]
    /\ bag_init = v
    /\ written = [h |-> 1, v |-> v]

Cap2(n) == IF n >= 2 THEN 2 ELSE n
NoCall == [t |-> 1, op |-> "none", c |-> 1, res |-> "none", val |-> {}]

\* ---- iCell::new ----------------------------------------------------------
\* (a variant that ignores the freeze argument)
NewGuardUnfrozen(f) == FALSE

\* (a variant that records the wrong thread)
NewGuardNextThread(t) == (t % NumThreads) + 1

\* The record of a new cell: freeze as given, thread_id the calling thread.
NewGuardFreeze(f) == f
NewGuardThread(t) == t

\* The state after iCell::new(v, f) for a payload type that needs drop (nd) or
\* not.  The threads are interchangeable: the one that runs iCell::new is
\* thread 1.  Cells other than cell 1 do not exist yet.
Init ==
    \E f \in BOOLEAN, v \in BOOLEAN, nd \in BOOLEAN :
        /\ state = [c \in Cells |-> IF c = 1 THEN "live" ELSE "absent"]
        /\ value = [c \in Cells |-> IF c = 1 THEN v ELSE FALSE]
        /\ freeze = [c \in Cells |-> IF c = 1 THEN NewGuardFreeze(f) ELSE FALSE]
        /\ thread_id = [c \in Cells |-> NewGuardThread(1)]
        /\ mutex = [c \in Cells |-> NoThread]
        /\ needs_drop = nd
        /\ holder = [c \in Cells |-> 1]
        /\ sharers = [c \in Cells |-> {}]
        /\ refs = [c \in Cells |-> [u \in Threads |-> "none"]]
        /\ pc = [u \in Threads |-> "idle"]
        /\ op = [u \in Threads |-> "none"]
        /\ cur = [u \in Threads |-> 1]
        /\ other = [u \in Threads |-> 1]
        /\ owner = [u \in Threads |-> 1]
        /\ last = [t |-> 1, op |-> "new", c |-> 1, res |-> "Ok", val |-> {}]
        /\ aborted = FALSE
        /\ creator = [c \in Cells |-> 1]
        /\ init_freeze = [c \in Cells |-> IF c = 1 THEN f ELSE FALSE]
        /\ ok_takes = [c \in Cells |-> 0]
        /\ taker = [c \in Cells |-> NoThread]
        /\ after_take = [u \in Threads |-> FALSE]
        /\ torn_by = [c \in Cells |-> NoThread]
        /\ teardowns = [c \in Cells |-> 0]
        /\ ops = 0
        /\ BagNew(0)

\* ---- borrow rules (the receivers of the methods) -------------------------
\* A &self method: the caller holds the cell or was lent a reference to it,
\* and no &mut borrow of the cell is alive.
HasShared(t, c) ==
    /\ state[c] = "live"
    /\ t = holder[c] \/ t \in sharers[c]
    /\ \A u \in Threads : refs[c][u] # "mut"

\* (a variant in which these methods take &self)
HasExclusiveAsShared(t, c) == HasShared(t, c)

\* A &mut self or self method: the caller holds the cell and nothing borrows it.
HasExclusive(t, c) ==
    /\ state[c] = "live"
    /\ t = holder[c]
    /\ sharers[c] = {}
    /\ \A u \in Threads : refs[c][u] = "none"

CanStart(t) == ~aborted /\ pc[t] = "idle" /\ ops < MaxOps
Live(t) == ~aborted /\ pc[t] # "dead"

\* The call `o` of thread t on cell c begins at position p.
Begin(t, c, o, p) ==
    /\ pc' = [pc EXCEPT ![t] = p]
    /\ op' = [op EXCEPT ![t] = o]
    /\ cur' = [cur EXCEPT ![t] = c]
    /\ after_take' = [after_take EXCEPT ![t] = ok_takes[c] > 0]
    /\ ops' = ops + 1
    /\ last' = NoCall
    /\ UNCHANGED bagVars
    /\ UNCHANGED <<cellVars, borrowVars, other, owner, aborted, histVars>>

\* The locals of the call of thread t go out of scope.
EndCall(t, p) ==
    /\ pc' = [pc EXCEPT ![t] = p]
    /\ op' = [op EXCEPT ![t] = "none"]
    /\ cur' = [cur EXCEPT ![t] = 1]
    /\ other' = [other EXCEPT ![t] = 1]
    /\ owner' = [owner EXCEPT ![t] = 1]
    /\ after_take' = [after_take EXCEPT ![t] = FALSE]

\* The call of thread t returns r, handing the payloads in v to the caller.
Finish(t, r, v) ==
    /\ EndCall(t, "idle")
    /\ last' = [t |-> t, op |-> op[t], c |-> cur[t], res |-> r, val |-> v]
    /\ UNCHANGED bagVars

\* The call of thread t ends in r, a panic or an abort: the thread unwinds, its
\* borrows end and it never runs again.
Unwind(t, r) ==
    /\ EndCall(t, "dead")
    /\ last' = [t |-> t, op |-> op[t], c |-> cur[t], res |-> r, val |-> {}]
    /\ UNCHANGED bagVars
    /\ sharers' = [c \in Cells |-> sharers[c] \ {t}]
    /\ refs' = [c \in Cells |-> [refs[c] EXCEPT ![t] = "none"]]

Panic(t) == Unwind(t, "panic")

\* ---- the record and its mutex -----------------------------------------------
\* (a variant in which a clone shares the record of the cell it was cloned
\* from, as a Clone that copied the Arc would: every cell descends from cell 1)
GuardOfOriginal(c) == 1

\* self.guard: the record of cell c.  iCell::new allocates one for every cell
\* (Arc::new(Mutex::new(CellGuard {..}))) and nothing ever copies the Arc.
Guard(c) == c

\* (a variant without mutual exclusion)
LockFreeAlways(c) == TRUE

\* self.guard.lock(): the caller goes on only when no thread holds the mutex.
LockFree(c) == mutex[Guard(c)] = NoThread

\* (a variant in which a panic anywhere in a method of the cell poisons the
\* mutex, as it would if the guard were kept until the method's end)
PoisonedByAnyPanic(c) == \E t \in Threads : pc[t] = "dead"

\* The mutex of cell c's record is poisoned: a thread panicked while it held
\* the guard (std::sync::Mutex marks the lock when a guard is dropped during a
\* panic), after which every self.guard.lock() returns Err.
Poisoned(c) == \E t \in Threads : mutex[Guard(c)] = t /\ pc[t] = "dead"

\* self.guard.lock().unwrap() on a poisoned mutex panics in the call of thread
\* t.  A call that has the cell by value (into_inner, try_into_inner) drops it
\* while unwinding, and Drop for iCell, for a payload that needs drop, locks
\* again and panics while panicking, which aborts the process; a drop that
\* panics leaves the payload as it is.
LockPanics(t) ==
    LET c == cur[t] IN
    /\ IF op[t] \in {"into_inner", "try_into_inner"}
       THEN /\ state' = [state EXCEPT ![c] = "dropped"]
            /\ IF needs_drop
               THEN aborted' = TRUE /\ Unwind(t, "abort")
               ELSE UNCHANGED aborted /\ Unwind(t, "panic")
       ELSE /\ state' = [state EXCEPT ![c] = IF op[t] = "drop" THEN "dropped" ELSE @]
            /\ UNCHANGED aborted
            /\ Unwind(t, "panic")
    /\ UNCHANGED <<value, freeze, thread_id, mutex, needs_drop, holder, histVars, ops>>

\* (a variant in which the guard outlives the call)
GuardLeaked(t) == t

\* The MutexGuard is dropped: the mutex is unlocked.
GuardDropped(t) == NoThread

\* ---- take_ownership ---------------------------------------------------------
StartTakeOwnership(t, c) ==
    /\ CanStart(t)
    /\ HasShared(t, c)
    /\ Begin(t, c, "take_ownership", "to_lock")

\* let mut guard = self.guard.lock().unwrap();
TakeLock(t) ==
    /\ Live(t)
    /\ pc[t] = "to_lock"
    /\ IF Poisoned(cur[t])
       THEN LockPanics(t)
       ELSE /\ LockFree(cur[t])
            /\ mutex' = [mutex EXCEPT ![Guard(cur[t])] = t]
            /\ pc' = [pc EXCEPT ![t] = "to_check"]
            /\ UNCHANGED <<state, value, freeze, thread_id, needs_drop, borrowVars,
                           op, cur, other, owner, after_take, aborted, histVars, ops>>
            /\ last' = NoCall
            /\ UNCHANGED bagVars

\* (a variant that never refuses)
TakeRefusedNever(c) == FALSE

\* (a variant that refuses only the recorded owner)
TakeRefusedOwnerOnly(c) == freeze[Guard(c)] /\ thread_id[Guard(c)] = mutex[Guard(c)]

\* if guard.freeze { return Err(FailTakeOwnership); }
TakeRefused(c) == freeze[Guard(c)]

TakeCheck(t) ==
    LET c == cur[t] IN
    /\ Live(t)
    /\ pc[t] = "to_check"
    /\ IF TakeRefused(c)
       THEN /\ Finish(t, "Err", {})
            /\ mutex' = [mutex EXCEPT ![Guard(c)] = GuardDropped(t)]
       ELSE /\ pc' = [pc EXCEPT ![t] = "to_freeze"]
            /\ last' = NoCall
            /\ UNCHANGED bagVars
            /\ UNCHANGED <<mutex, op, cur, other, owner, after_take>>
    /\ UNCHANGED <<state, value, freeze, thread_id, needs_drop, borrowVars,
                   aborted, histVars, ops>>

\* guard.freeze = true;
TakeFreeze(t) ==
    /\ Live(t)
    /\ pc[t] = "to_freeze"
    /\ freeze' = [freeze EXCEPT ![Guard(cur[t])] = TRUE]
    /\ pc' = [pc EXCEPT ![t] = "to_set"]
    /\ last' = NoCall
    /\ UNCHANGED bagVars
    /\ UNCHANGED <<state, value, thread_id, mutex, needs_drop, borrowVars,
                   op, cur, other, owner, after_take, aborted, histVars, ops>>

\* (a variant that leaves thread_id as it is)
TakenByNobody(t, c) == thread_id[Guard(c)]

\* (a variant that records the thread holding the cell, not the caller)
TakenByHolder(t, c) == holder[c]

\* guard.thread_id = thread::current().id();
TakenBy(t, c) == t

\* guard.thread_id = thread::current().id(); Ok(true)  (the guard is released)
TakeSet(t) ==
    LET c == cur[t] IN
    /\ Live(t)
    /\ pc[t] = "to_set"
    /\ thread_id' = [thread_id EXCEPT ![Guard(c)] = TakenBy(t, c)]
    /\ mutex' = [mutex EXCEPT ![Guard(c)] = GuardDropped(t)]
    /\ Finish(t, "Ok", {})
    /\ ok_takes' = [ok_takes EXCEPT ![c] = Cap2(@ + 1)]
    /\ taker' = [taker EXCEPT ![c] = t]
    /\ UNCHANGED <<state, value, freeze, needs_drop, borrowVars, aborted,
                   creator, init_freeze, torn_by, teardowns, ops>>

\* ---- is_valid -----------------------------------------------------------------
StartIsValid(t, c) ==
    /\ CanStart(t)
    /\ HasShared(t, c)
    /\ Begin(t, c, "is_valid", "iv")

\* (a variant in which the owner is whoever holds the cell)
RecordedHolder(c) == holder[c]

\* self.guard.lock().unwrap().thread_id
RecordedOwner(c) == thread_id[Guard(c)]

\* The cell on which the call of thread t runs is_valid: `self`, or `other` for
\* the second get of a comparison.
Checking(t) == IF pc[t] \in {"iv2", "ret2"} /\ op[t] = "cmp" THEN other[t] ELSE cur[t]

\* let owner = self.guard.lock().unwrap().thread_id;  The guard is a temporary:
\* the mutex is taken, thread_id copied and the mutex released in one step,
\* possible only when no thread holds the mutex.  Every caller of is_valid
\* passes here, the second check of try_get_mut and try_into_inner at "iv2".
ReadOwner(t) ==
    /\ Live(t)
    /\ pc[t] \in {"iv", "iv2"}
    /\ IF Poisoned(Checking(t))
       THEN LockPanics(t)
       ELSE /\ LockFree(Checking(t))
            /\ owner' = [owner EXCEPT ![t] = RecordedOwner(Checking(t))]
            /\ pc' = [pc EXCEPT ![t] = IF pc[t] = "iv" THEN "ret" ELSE "ret2"]
            /\ last' = NoCall
            /\ UNCHANGED bagVars
            /\ UNCHANGED <<cellVars, borrowVars, op, cur, other, after_take, aborted,
                           histVars, ops>>

\* (a variant that accepts every thread)
ValidAlways(t) == TRUE

\* thread::current().id() == owner
Valid(t) == t = owner[t]

IsValidRet(t) ==
    /\ Live(t)
    /\ pc[t] = "ret"
    /\ op[t] = "is_valid"
    /\ Finish(t, IF Valid(t) THEN "true" ELSE "false", {})
    /\ UNCHANGED <<cellVars, borrowVars, aborted, histVars, ops>>

\* (a variant that never panics)
AssertThreadNever(t) == FALSE

\* (a variant that lets through every thread that was lent the cell)
AssertThreadSparesSharers(t) == ~Valid(t) /\ t = holder[cur[t]]

\* assert_thread: panic!(..) if !self.is_valid()
AssertThreadFails(t) == ~Valid(t)

\* ---- get, get_mut -------------------------------------------------------------
StartGet(t, c) ==
    /\ CanStart(t)
    /\ HasShared(t, c)
    /\ Begin(t, c, "get", "iv")

\* self.assert_thread(); &self.value
GetRet(t) ==
    /\ Live(t)
    /\ pc[t] = "ret"
    /\ op[t] = "get"
    /\ IF AssertThreadFails(t)
       THEN Panic(t)
       ELSE /\ refs' = [refs EXCEPT ![cur[t]][t] = "shared"]
            /\ Finish(t, "Ok", {})
            /\ UNCHANGED sharers
    /\ UNCHANGED <<cellVars, holder, aborted, histVars, ops>>

StartGetMut(t, c) ==
    /\ CanStart(t)
    /\ HasExclusive(t, c)
    /\ Begin(t, c, "get_mut", "iv")

\* self.assert_thread(); &mut self.value
GetMutRet(t) ==
    /\ Live(t)
    /\ pc[t] = "ret"
    /\ op[t] = "get_mut"
    /\ IF AssertThreadFails(t)
       THEN Panic(t)
       ELSE /\ refs' = [refs EXCEPT ![cur[t]][t] = "mut"]
            /\ Finish(t, "Ok", {})
            /\ UNCHANGED sharers
    /\ UNCHANGED <<cellVars, holder, aborted, histVars, ops>>

\* ---- try_get, try_get_mut -----------------------------------------------------
StartTryGet(t, c) ==
    /\ CanStart(t)
    /\ HasShared(t, c)
    /\ Begin(t, c, "try_get", "iv")

\* if self.is_valid() { Ok(&*self.value) } else { Err(InvalidThreadAccess) }
TryGetRet(t) ==
    /\ Live(t)
    /\ pc[t] = "ret"
    /\ op[t] = "try_get"
    /\ IF Valid(t)
       THEN /\ refs' = [refs EXCEPT ![cur[t]][t] = "shared"]
            /\ Finish(t, "Ok", {})
       ELSE /\ Finish(t, "Err", {})
            /\ UNCHANGED refs
    /\ UNCHANGED <<cellVars, holder, sharers, aborted, histVars, ops>>

StartTryGetMut(t, c) ==
    /\ CanStart(t)
    /\ HasExclusive(t, c)
    /\ Begin(t, c, "try_get_mut", "iv")

\* if self.is_valid() { Ok(self.get_mut()) } else { Err(InvalidThreadAccess) }
TryGetMutRet(t) ==
    /\ Live(t)
    /\ pc[t] = "ret"
    /\ op[t] = "try_get_mut"
    /\ IF Valid(t)
       THEN /\ pc' = [pc EXCEPT ![t] = "iv2"]
            /\ last' = NoCall
            /\ UNCHANGED bagVars
            /\ UNCHANGED <<op, cur, other, owner, after_take>>
       ELSE Finish(t, "Err", {})
    /\ UNCHANGED <<cellVars, borrowVars, aborted, histVars, ops>>

\* the get_mut called by try_get_mut: self.assert_thread(); &mut self.value
TryGetMutRet2(t) ==
    /\ Live(t)
    /\ pc[t] = "ret2"
    /\ op[t] = "try_get_mut"
    /\ IF AssertThreadFails(t)
       THEN Panic(t)
       ELSE /\ refs' = [refs EXCEPT ![cur[t]][t] = "mut"]
            /\ Finish(t, "Ok", {})
            /\ UNCHANGED sharers
    /\ UNCHANGED <<cellVars, holder, aborted, histVars, ops>>

\* ---- Drop ---------------------------------------------------------------------
\* unsafe { ManuallyDrop::drop(&mut self.value) }: the payload's teardown runs on t.
Teardown(t, c) ==
    /\ torn_by' = [torn_by EXCEPT ![c] = t]
    /\ teardowns' = [teardowns EXCEPT ![c] = Cap2(@ + 1)]

\* (a variant that checks the thread for every payload type)
DropChecksAlways == TRUE

\* if mem::needs_drop::<T>() { .. }
DropChecks == needs_drop

\* drop(&mut self) begins: is_valid is called only for a payload that needs drop.
StartDrop(t, c) ==
    /\ CanStart(t)
    /\ HasExclusive(t, c)
    /\ Begin(t, c, "drop", IF DropChecks THEN "iv" ELSE "ret")

\* if self.is_valid() { ManuallyDrop::drop(..) } else { panic!(..) }: the payload
\* is torn down on the owner; on any other thread drop panics and the payload is
\* left as it is.  Nothing runs for a payload that needs no drop.
DropRet(t) ==
    LET c == cur[t] IN
    /\ Live(t)
    /\ pc[t] = "ret"
    /\ op[t] = "drop"
    /\ state' = [state EXCEPT ![c] = "dropped"]
    /\ IF ~DropChecks
       THEN /\ Finish(t, "Ok", {})
            /\ UNCHANGED <<sharers, refs, torn_by, teardowns>>
       ELSE IF Valid(t)
            THEN /\ Teardown(t, c)
                 /\ Finish(t, "Ok", {})
                 /\ UNCHANGED <<sharers, refs>>
            ELSE /\ Panic(t)
                 /\ UNCHANGED <<torn_by, teardowns>>
    /\ UNCHANGED <<value, freeze, thread_id, mutex, needs_drop, holder,
                   aborted, creator, init_freeze, ok_takes, taker, ops>>

\* ---- into_inner, try_into_inner -----------------------------------------------
\* (a variant without ManuallyDrop::new(self): the payload is handed out and
\* Drop for iCell runs on `self` when into_inner returns)
TakeValueThenDrop(t, c) ==
    /\ state' = [state EXCEPT ![c] = "dropped"]
    /\ Finish(t, "Ok", {value[c]})
    /\ IF DropChecks THEN Teardown(t, c) ELSE UNCHANGED <<torn_by, teardowns>>
    /\ UNCHANGED <<sharers, refs, aborted>>

\* let mut this = ManuallyDrop::new(self); ManuallyDrop::take(&mut this.value):
\* the payload moves to the caller and the cell's Drop never runs.
TakeValue(t, c) ==
    /\ state' = [state EXCEPT ![c] = "moved_out"]
    /\ Finish(t, "Ok", {value[c]})
    /\ UNCHANGED <<sharers, refs, aborted, torn_by, teardowns>>

\* assert_thread panics inside into_inner while `self` is still a live local:
\* unwinding drops the cell on the panicking thread.  With a payload that needs
\* drop, Drop for iCell checks is_valid again and panics while panicking, which
\* aborts the process; otherwise the cell goes away without any teardown.
PanicOwningCell(t, c) ==
    /\ state' = [state EXCEPT ![c] = "dropped"]
    /\ IF DropChecks
       THEN IF thread_id[c] = t
            THEN /\ Teardown(t, c)
                 /\ Panic(t)
                 /\ UNCHANGED aborted
            ELSE /\ aborted' = TRUE
                 /\ Unwind(t, "abort")
                 /\ UNCHANGED <<torn_by, teardowns>>
       ELSE /\ Panic(t)
            /\ UNCHANGED <<aborted, torn_by, teardowns>>

StartIntoInner(t, c) ==
    /\ CanStart(t)
    /\ HasExclusive(t, c)
    /\ Begin(t, c, "into_inner", "iv")

\* self.assert_thread(); .. ManuallyDrop::take(&mut this.value)
IntoInnerRet(t) ==
    LET c == cur[t] IN
    /\ Live(t)
    /\ pc[t] = "ret"
    /\ op[t] = "into_inner"
    /\ IF AssertThreadFails(t) THEN PanicOwningCell(t, c) ELSE TakeValue(t, c)
    /\ UNCHANGED <<value, freeze, thread_id, mutex, needs_drop, holder,
                   creator, init_freeze, ok_takes, taker, ops>>

StartTryIntoInner(t, c) ==
    /\ CanStart(t)
    /\ HasExclusive(t, c)
    /\ Begin(t, c, "try_into_inner", "iv")

\* if self.is_valid() { Ok(self.into_inner()) } else { Err(self) }
TryIntoInnerRet(t) ==
    /\ Live(t)
    /\ pc[t] = "ret"
    /\ op[t] = "try_into_inner"
    /\ IF Valid(t)
       THEN /\ pc' = [pc EXCEPT ![t] = "iv2"]
            /\ last' = NoCall
            /\ UNCHANGED bagVars
            /\ UNCHANGED <<op, cur, other, owner, after_take>>
       ELSE Finish(t, "Err", {})
    /\ UNCHANGED <<cellVars, borrowVars, aborted, histVars, ops>>

\* the into_inner called by try_into_inner
TryIntoInnerRet2(t) ==
    LET c == cur[t] IN
    /\ Live(t)
    /\ pc[t] = "ret2"
    /\ op[t] = "try_into_inner"
    /\ IF AssertThreadFails(t) THEN PanicOwningCell(t, c) ELSE TakeValue(t, c)
    /\ UNCHANGED <<value, freeze, thread_id, mutex, needs_drop, holder,
                   creator, init_freeze, ok_takes, taker, ops>>

\* ---- Clone --------------------------------------------------------------------
FreeCells == {n \in Cells : state[n] = "absent"}

StartClone(t, c) ==
    /\ CanStart(t)
    /\ HasShared(t, c)
    /\ FreeCells # {}
    /\ \A u \in Threads : op[u] # "clone"
    /\ Begin(t, c, "clone", "iv")

\* iCell::new(self.get().clone(), false): get asserts the thread, then a new
\* cell is made on the calling thread with its own record.
CloneRet(t) ==
    LET c == cur[t]
        n == CHOOSE m \in FreeCells : \A k \in FreeCells : m <= k
    IN
    /\ Live(t)
    /\ pc[t] = "ret"
    /\ op[t] = "clone"
    /\ IF AssertThreadFails(t)
       THEN /\ Panic(t)
            /\ UNCHANGED <<state, value, freeze, thread_id, holder, creator, init_freeze>>
       ELSE /\ state' = [state EXCEPT ![n] = "live"]
            /\ value' = [value EXCEPT ![n] = value[c]]
            /\ freeze' = [freeze EXCEPT ![n] = NewGuardFreeze(FALSE)]
            /\ thread_id' = [thread_id EXCEPT ![n] = NewGuardThread(t)]
            /\ holder' = [holder EXCEPT ![n] = t]
            /\ creator' = [creator EXCEPT ![n] = t]
            /\ init_freeze' = [init_freeze EXCEPT ![n] = FALSE]
            /\ Finish(t, "Ok", {})
            /\ UNCHANGED <<sharers, refs>>
    /\ UNCHANGED <<mutex, needs_drop, aborted, ok_takes, taker, torn_by, teardowns, ops>>

\* ---- PartialEq, PartialOrd, Ord ---------------------------------------------
\* The comparison methods: eq of PartialEq, partial_cmp, lt, le, gt, ge of
\* PartialOrd, cmp of Ord.  Each is self.get() OP other.get(); which of them was
\* called decides nothing but the result, so the model draws it when the result
\* is computed and a running call is a "cmp".
CmpKinds == {"eq", "partial_cmp", "lt", "le", "gt", "ge", "cmp"}

\* The payload type's own comparison (bool: false < true), with the results
\* written as Rust prints them.
Bool(b) == IF b THEN "true" ELSE "false"
PayloadOrd(a, b) == IF a = b THEN "Equal" ELSE IF b THEN "Less" ELSE "Greater"
PayloadCmp(k, a, b) ==
    CASE k = "eq" -> Bool(a = b)
      [] k = "lt" -> Bool(~a /\ b)
      [] k = "le" -> Bool(~a \/ b)
      [] k = "gt" -> Bool(a /\ ~b)
      [] k = "ge" -> Bool(a \/ ~b)
      [] k = "partial_cmp" -> "Some(" \o PayloadOrd(a, b) \o ")"
      [] k = "cmp" -> PayloadOrd(a, b)

\* (a variant with the operands the wrong way round)
CmpResultSwapped(k, a, b) == PayloadCmp(k, b, a)

\* *self.get() == *other.get(), self.get().partial_cmp(other.get()), ..: the
\* payload type's comparison of self's payload with other's.
CmpResult(k, a, b) == PayloadCmp(k, a, b)

\* A comparison (&self, other: &iCell<T>) begins with self.get(), on cell c.
StartCmp(t, c, d) ==
    /\ CanStart(t)
    /\ HasShared(t, c)
    /\ HasShared(t, d)
    /\ pc' = [pc EXCEPT ![t] = "iv"]
    /\ op' = [op EXCEPT ![t] = "cmp"]
    /\ cur' = [cur EXCEPT ![t] = c]
    /\ other' = [other EXCEPT ![t] = d]
    /\ after_take' = [after_take EXCEPT ![t] = ok_takes[c] > 0]
    /\ ops' = ops + 1
    /\ last' = NoCall
    /\ UNCHANGED bagVars
    /\ UNCHANGED <<cellVars, borrowVars, owner, aborted, histVars>>

\* self.get() returns or panics; if it returns, other.get() begins.
CmpRet(t) ==
    /\ Live(t)
    /\ pc[t] = "ret"
    /\ op[t] = "cmp"
    /\ IF AssertThreadFails(t)
       THEN Panic(t)
       ELSE /\ pc' = [pc EXCEPT ![t] = "iv2"]
            /\ after_take' = [after_take EXCEPT ![t] = ok_takes[other[t]] > 0]
            /\ last' = NoCall
            /\ UNCHANGED bagVars
            /\ UNCHANGED <<op, cur, other, owner, sharers, refs>>
    /\ UNCHANGED <<cellVars, holder, aborted, histVars, ops>>

\* other.get() returns or panics; if it returns, the payloads are compared.
CmpRet2(t) ==
    /\ Live(t)
    /\ pc[t] = "ret2"
    /\ op[t] = "cmp"
    /\ IF AssertThreadFails(t)
       THEN Panic(t)
       ELSE /\ \E k \in CmpKinds :
                 last' = [t |-> t, op |-> k, c |-> cur[t], res |-> "Ok",
                          val |-> {CmpResult(k, value[cur[t]], value[other[t]])}]
            /\ EndCall(t, "idle")
            /\ UNCHANGED <<sharers, refs, bagVars>>
    /\ UNCHANGED <<cellVars, holder, aborted, histVars, ops>>

\* ---- Display, Debug ---------------------------------------------------------------
StartDisplay(t, c) ==
    /\ CanStart(t)
    /\ HasShared(t, c)
    /\ Begin(t, c, "fmt_display", "iv")

\* fmt::Display::fmt(self.get(), f): get asserts the thread, then the payload
\* is written as its own Display writes it.
DisplayRet(t) ==
    /\ Live(t)
    /\ pc[t] = "ret"
    /\ op[t] = "fmt_display"
    /\ IF AssertThreadFails(t)
       THEN Panic(t)
       ELSE /\ Finish(t, "Ok", {Bool(value[cur[t]])})
            /\ UNCHANGED <<sharers, refs>>
    /\ UNCHANGED <<cellVars, holder, aborted, histVars, ops>>

StartDebug(t, c) ==
    /\ CanStart(t)
    /\ HasShared(t, c)
    /\ Begin(t, c, "fmt_debug", "iv")

\* f.write_str("<invalid thread>")
InvalidPlaceholder == "<invalid thread>"

\* (a variant that formats the payload on whichever thread it is called)
DebugFieldUnchecked(t, c) == Bool(value[c])

\* match self.try_get() { Ok(value) => .. value, Err(..) => .. &InvalidPlaceholder }
DebugField(t, c) == IF Valid(t) THEN Bool(value[c]) ELSE InvalidPlaceholder

\* f.debug_struct("Fragile").field("value", ..).finish()
DebugStruct(field) == "Fragile { value: " \o field \o " }"

DebugRet(t) ==
    /\ Live(t)
    /\ pc[t] = "ret"
    /\ op[t] = "fmt_debug"
    /\ Finish(t, "Ok", {DebugStruct(DebugField(t, cur[t]))})
    /\ UNCHANGED <<cellVars, borrowVars, aborted, histVars, ops>>

\* ---- what the callers do with the cell and with the references ----------------
\* unsafe impl<T> Send for iCell<T>: the holder moves the cell to thread u.
Move(t, u, c) ==
    /\ CanStart(t)
    /\ HasExclusive(t, c)
    /\ u # t
    /\ pc[u] # "dead"
    /\ holder' = [holder EXCEPT ![c] = u]
    /\ ops' = ops + 1
    /\ last' = NoCall
    /\ UNCHANGED bagVars
    /\ UNCHANGED <<cellVars, sharers, refs, threadVars, histVars>>

\* unsafe impl<T> Sync for iCell<T>: the holder lends &iCell to thread u.
Share(t, u, c) ==
    /\ CanStart(t)
    /\ HasShared(t, c)
    /\ t = holder[c]
    /\ u # t
    /\ u \notin sharers[c]
    /\ pc[u] # "dead"
    /\ sharers' = [sharers EXCEPT ![c] = @ \cup {u}]
    /\ ops' = ops + 1
    /\ last' = NoCall
    /\ UNCHANGED bagVars
    /\ UNCHANGED <<cellVars, holder, refs, threadVars, histVars>>

\* Thread u gives back the &iCell it was lent.
Unshare(u, c) ==
    /\ ~aborted
    /\ pc[u] = "idle"
    /\ u \in sharers[c]
    /\ refs[c][u] = "none"
    /\ sharers' = [sharers EXCEPT ![c] = @ \ {u}]
    /\ last' = NoCall
    /\ UNCHANGED bagVars
    /\ UNCHANGED <<cellVars, holder, refs, threadVars, histVars, ops>>

\* Thread t stops using the &T or &mut T an accessor returned.
Release(t, c) ==
    /\ ~aborted
    /\ pc[t] = "idle"
    /\ refs[c][t] # "none"
    /\ refs' = [refs EXCEPT ![c][t] = "none"]
    /\ last' = NoCall
    /\ UNCHANGED bagVars
    /\ UNCHANGED <<cellVars, holder, sharers, threadVars, histVars, ops>>

\* Thread t writes the payload through the &mut T that get_mut returned.
Write(t, c) ==
    /\ CanStart(t)
    /\ refs[c][t] = "mut"
    /\ value' = [value EXCEPT ![c] = ~@]
    /\ ops' = ops + 1
    /\ last' = NoCall
    /\ UNCHANGED bagVars
    /\ UNCHANGED <<state, freeze, thread_id, mutex, needs_drop, borrowVars,
                   threadVars, histVars>>

\* ---- the specification --------------------------------------------------------
Next ==
    \/ \E t \in Threads, c \in Cells : StartTakeOwnership(t, c)
    \/ \E t \in Threads : TakeLock(t)
    \/ \E t \in Threads : TakeCheck(t)
    \/ \E t \in Threads : TakeFreeze(t)
    \/ \E t \in Threads : TakeSet(t)
    \/ \E t \in Threads, c \in Cells : StartIsValid(t, c)
    \/ \E t \in Threads : ReadOwner(t)
    \/ \E t \in Threads : IsValidRet(t)
    \/ \E t \in Threads, c \in Cells : StartGet(t, c)
    \/ \E t \in Threads : GetRet(t)
    \/ \E t \in Threads, c \in Cells : StartGetMut(t, c)
    \/ \E t \in Threads : GetMutRet(t)
    \/ \E t \in Threads, c \in Cells : StartTryGet(t, c)
    \/ \E t \in Threads : TryGetRet(t)
    \/ \E t \in Threads, c \in Cells : StartTryGetMut(t, c)
    \/ \E t \in Threads : TryGetMutRet(t)
    \/ \E t \in Threads : TryGetMutRet2(t)
    \/ \E t \in Threads, c \in Cells : StartDrop(t, c)
    \/ \E t \in Threads : DropRet(t)
    \/ \E t \in Threads, c \in Cells : StartIntoInner(t, c)
    \/ \E t \in Threads : IntoInnerRet(t)
    \/ \E t \in Threads, c \in Cells : StartTryIntoInner(t, c)
    \/ \E t \in Threads : TryIntoInnerRet(t)
    \/ \E t \in Threads : TryIntoInnerRet2(t)
    \/ \E t, u \in Threads, c \in Cells : Move(t, u, c)
    \/ \E t, u \in Threads, c \in Cells : Share(t, u, c)
    \/ \E u \in Threads, c \in Cells : Unshare(u, c)
    \/ \E t \in Threads, c \in Cells : Release(t, c)
    \/ \E t \in Threads, c \in Cells : Write(t, c)

Spec == Init /\ [][Next]_vars

\* take_ownership and the hand-overs, which every specification below shares.
NextTransfer ==
    \/ \E t \in Threads, c \in Cells : StartTakeOwnership(t, c)
    \/ \E t \in Threads : TakeLock(t)
    \/ \E t \in Threads : TakeCheck(t)
    \/ \E t \in Threads : TakeFreeze(t)
    \/ \E t \in Threads : TakeSet(t)
    \/ \E t \in Threads : ReadOwner(t)
    \/ \E t, u \in Threads, c \in Cells : Move(t, u, c)
    \/ \E t, u \in Threads, c \in Cells : Share(t, u, c)

\* Clone: cells other than cell 1 come into being as clones, and are moved,
\* lent and taken over like cell 1.
NextClone ==
    \/ NextTransfer
    \/ \E t \in Threads, c \in Cells : StartClone(t, c)
    \/ \E t \in Threads : CloneRet(t)

SpecClone == Init /\ [][NextClone]_vars

\* Debug on a cell that is moved, lent and taken over meanwhile.
NextDebug ==
    \/ NextTransfer
    \/ \E t \in Threads, c \in Cells : StartDebug(t, c)
    \/ \E t \in Threads : DebugRet(t)

SpecDebug == Init /\ [][NextDebug]_vars

\* The state after thread 1 made two unfrozen cells, iCell::new(v, false) and
\* iCell::new(w, false), of a payload type that needs drop (nd) or not.  The
\* second iCell::new counts as a call started.
Pair(v, w, nd) ==
        /\ state = [c \in Cells |-> IF c <= 2 THEN "live" ELSE "absent"]
        /\ value = [c \in Cells |-> IF c = 1 THEN v ELSE IF c = 2 THEN w ELSE FALSE]
        /\ freeze = [c \in Cells |-> NewGuardFreeze(FALSE)]
        /\ thread_id = [c \in Cells |-> NewGuardThread(1)]
        /\ mutex = [c \in Cells |-> NoThread]
        /\ needs_drop = nd
        /\ holder = [c \in Cells |-> 1]
        /\ sharers = [c \in Cells |-> {}]
        /\ refs = [c \in Cells |-> [u \in Threads |-> "none"]]
        /\ pc = [u \in Threads |-> "idle"]
        /\ op = [u \in Threads |-> "none"]
        /\ cur = [u \in Threads |-> 1]
        /\ other = [u \in Threads |-> 1]
        /\ owner = [u \in Threads |-> 1]
        /\ last = [t |-> 1, op |-> "new", c |-> 2, res |-> "Ok", val |-> {}]
        /\ aborted = FALSE
        /\ creator = [c \in Cells |-> 1]
        /\ init_freeze = [c \in Cells |-> FALSE]
        /\ ok_takes = [c \in Cells |-> 0]
        /\ taker = [c \in Cells |-> NoThread]
        /\ after_take = [u \in Threads |-> FALSE]
        /\ torn_by = [c \in Cells |-> NoThread]
        /\ teardowns = [c \in Cells |-> 0]
        /\ ops = 1
        /\ BagNew(0)

\* Two cells of bool payloads, which need no drop.
InitPair == \E v \in BOOLEAN, w \in BOOLEAN : Pair(v, w, FALSE)

\* PartialEq, PartialOrd, Ord and Display on two cells that are lent and taken
\* over meanwhile.
NextCmp ==
    \/ \E t \in Threads, c \in Cells : StartTakeOwnership(t, c)
    \/ \E t \in Threads : TakeLock(t)
    \/ \E t \in Threads : TakeCheck(t)
    \/ \E t \in Threads : TakeFreeze(t)
    \/ \E t \in Threads : TakeSet(t)
    \/ \E t \in Threads : ReadOwner(t)
    \/ \E t, u \in Threads, c \in Cells : Share(t, u, c)
    \/ \E t \in Threads, c, d \in Cells : StartCmp(t, c, d)
    \/ \E t \in Threads : CmpRet(t)
    \/ \E t \in Threads : CmpRet2(t)
    \/ \E t \in Threads, c \in Cells : StartDisplay(t, c)
    \/ \E t \in Threads : DisplayRet(t)

SpecCmp == InitPair /\ [][NextCmp]_vars

\* take_ownership, is_valid, try_get, drop and the comparisons, on two cells
\* that are lent and given back meanwhile, under a fair
\* scheduler: a thread that is inside a call and can take a step eventually
\* takes one.  When a call begins, and what the callers do with the cell and
\* the references between calls, is up to the program.
InitLive == \E nd \in BOOLEAN : Pair(FALSE, TRUE, nd)

NextLive ==
    \/ \E t \in Threads, c \in Cells : StartTakeOwnership(t, c)
    \/ \E t \in Threads : TakeLock(t)
    \/ \E t \in Threads : TakeCheck(t)
    \/ \E t \in Threads : TakeFreeze(t)
    \/ \E t \in Threads : TakeSet(t)
    \/ \E t \in Threads : ReadOwner(t)
    \/ \E t \in Threads, c \in Cells : StartIsValid(t, c)
    \/ \E t \in Threads : IsValidRet(t)
    \/ \E t \in Threads, c \in Cells : StartTryGet(t, c)
    \/ \E t \in Threads : TryGetRet(t)
    \/ \E t \in Threads, c \in Cells : StartDrop(t, c)
    \/ \E t \in Threads : DropRet(t)
    \/ \E t \in Threads, c, d \in Cells : StartCmp(t, c, d)
    \/ \E t \in Threads : CmpRet(t)
    \/ \E t \in Threads : CmpRet2(t)
    \/ \E t, u \in Threads, c \in Cells : Share(t, u, c)
    \/ \E u \in Threads, c \in Cells : Unshare(u, c)
    \/ \E t \in Threads, c \in Cells : Release(t, c)

Step(t) ==
    \/ TakeLock(t) \/ TakeCheck(t) \/ TakeFreeze(t) \/ TakeSet(t)
    \/ ReadOwner(t) \/ IsValidRet(t) \/ TryGetRet(t) \/ DropRet(t)
    \/ CmpRet(t) \/ CmpRet2(t)

SpecLive == InitLive /\ [][NextLive]_vars /\ \A t \in Threads : WF_vars(Step(t))

\* ---- iBag (src/src/lib.rs) ------------------------------------------------------
\* No cell exists: the state of the cell's variables while the bag is used.
NoCells ==
    /\ state = [c \in Cells |-> "absent"]
    /\ value = [c \in Cells |-> FALSE]
    /\ freeze = [c \in Cells |-> FALSE]
    /\ thread_id = [c \in Cells |-> 1]
    /\ mutex = [c \in Cells |-> NoThread]
    /\ needs_drop = FALSE
    /\ holder = [c \in Cells |-> 1]
    /\ sharers = [c \in Cells |-> {}]
    /\ refs = [c \in Cells |-> [u \in Threads |-> "none"]]
    /\ pc = [u \in Threads |-> "idle"]
    /\ op = [u \in Threads |-> "none"]
    /\ cur = [u \in Threads |-> 1]
    /\ other = [u \in Threads |-> 1]
    /\ owner = [u \in Threads |-> 1]
    /\ last = NoCall
    /\ aborted = FALSE
    /\ creator = [c \in Cells |-> 1]
    /\ init_freeze = [c \in Cells |-> FALSE]
    /\ ok_takes = [c \in Cells |-> 0]
    /\ taker = [c \in Cells |-> NoThread]
    /\ after_take = [u \in Threads |-> FALSE]
    /\ torn_by = [c \in Cells |-> NoThread]
    /\ teardowns = [c \in Cells |-> 0]
    /\ ops = 0

\* iBag::new(v) for an initial value of 0 or 1.
InitBag == NoCells /\ \E v \in {0, 1} : BagNew(v)

Bags == 1..Len(inner)

\* (a variant in which clone copies the value into a new allocation)
CloneInnerFresh(h) == Len(inner) + 1

\* iBag::clone: Self { inner: self.inner.clone() }, the same Arc.
CloneInner(h) == inner[h]

\* A thread makes another handle from handle h.  A new allocation, if clone
\* made one, starts with a copy of the value and with its lock free.
BagClone(t, h) ==
    /\ bpc[t] = "idle"
    /\ h \in Bags
    /\ Len(inner) < MaxBags
    /\ inner' = Append(inner, CloneInner(h))
    /\ bag_value' = [bag_value EXCEPT ![CloneInner(h)] = bag_value[inner[h]]]
    /\ blast' = [t |-> t, op |-> "clone", h |-> h, res |-> 0]
    /\ UNCHANGED <<writer, readers, bpc, bop, bh, btmp, calls, bag_init, written>>
    /\ UNCHANGED vars

CanCall(t) == bpc[t] = "idle" /\ calls[t] < BagCalls

\* (a variant in which the write lock excludes nobody)
WriteLockFreeAlways(i) == TRUE

\* RwLock::write goes on only when no guard of either kind is out.
WriteLockFree(i) == writer[i] = NoThread /\ readers[i] = {}

\* RwLock::read goes on only when no write guard is out.
ReadLockFree(i) == writer[i] = NoThread

\* self.inner.write().unwrap(), in write and in with, by thread t through
\* handle h: the call goes on from here once the lock is free (a thread that
\* waits for the lock has changed nothing yet).  x is what will be stored.
WriteLock(t, h, o, x) ==
    /\ CanCall(t)
    /\ h \in Bags
    /\ WriteLockFree(inner[h])
    /\ writer' = [writer EXCEPT ![inner[h]] = t]
    /\ bpc' = [bpc EXCEPT ![t] = IF o = "with" THEN "closure" ELSE "store"]
    /\ bop' = [bop EXCEPT ![t] = o]
    /\ bh' = [bh EXCEPT ![t] = h]
    /\ btmp' = [btmp EXCEPT ![t] = x]
    /\ blast' = NoBagCall
    /\ UNCHANGED <<inner, bag_value, readers, calls, bag_init, written>>
    /\ UNCHANGED vars

\* self.inner.read().unwrap(), in load and in with_read
ReadLock(t, h, o) ==
    /\ CanCall(t)
    /\ h \in Bags
    /\ ReadLockFree(inner[h])
    /\ readers' = [readers EXCEPT ![inner[h]] = @ \cup {t}]
    /\ bpc' = [bpc EXCEPT ![t] = "read"]
    /\ bop' = [bop EXCEPT ![t] = o]
    /\ bh' = [bh EXCEPT ![t] = h]
    /\ blast' = NoBagCall
    /\ UNCHANGED <<inner, bag_value, writer, btmp, calls, bag_init, written>>
    /\ UNCHANGED vars

\* bag.with(|v| *v += 1)
StartWith(t, h) == WriteLock(t, h, "with", 0)

\* *bag.write() = x
StartWrite(t, h, x) == WriteLock(t, h, "write", x)

\* *bag.load() or bag.with_read(|v| *v): the same lock and the same read, so
\* that which of the two it was is drawn when the call returns.
ReadKinds == {"load", "with_read"}

StartRead(t, h) == ReadLock(t, h, "read")

\* f(&mut *guard) for |v| *v += 1: the closure reads *v and adds one ..
ClosureLoad(t) ==
    /\ bpc[t] = "closure"
    /\ btmp' = [btmp EXCEPT ![t] = bag_value[inner[bh[t]]] + 1]
    /\ bpc' = [bpc EXCEPT ![t] = "store"]
    /\ blast' = NoBagCall
    /\ UNCHANGED <<inner, bag_value, writer, readers, bop, bh, calls, bag_init,
                   written>>
    /\ UNCHANGED vars

\* The locals of the call of thread t on the bag go out of scope.
BagEnd(t) ==
    /\ bpc' = [bpc EXCEPT ![t] = "idle"]
    /\ bop' = [bop EXCEPT ![t] = "none"]
    /\ bh' = [bh EXCEPT ![t] = 1]
    /\ btmp' = [btmp EXCEPT ![t] = 0]
    /\ calls' = [calls EXCEPT ![t] = @ + 1]

\* .. and stores the sum (`*bag.write() = x` stores x); the write guard is
\* dropped and the call returns.
WriteRet(t) ==
    LET i == inner[bh[t]] IN
    /\ bpc[t] = "store"
    /\ bag_value' = [bag_value EXCEPT ![i] = btmp[t]]
    /\ writer' = [writer EXCEPT ![i] = IF @ = t THEN NoThread ELSE @]
    /\ written' = [h |-> bh[t], v |-> btmp[t]]
    /\ blast' = [t |-> t, op |-> bop[t], h |-> bh[t], res |-> btmp[t]]
    /\ BagEnd(t)
    /\ UNCHANGED <<inner, readers, bag_init>>
    /\ UNCHANGED vars

\* *guard is read (by the caller of load, or by with_read's closure), the read
\* guard is dropped and the value read is the result.
ReadRet(t) ==
    LET i == inner[bh[t]] IN
    /\ bpc[t] = "read"
    /\ readers' = [readers EXCEPT ![i] = @ \ {t}]
    /\ \E o \in ReadKinds :
           blast' = [t |-> t, op |-> o, h |-> bh[t], res |-> bag_value[i]]
    /\ BagEnd(t)
    /\ UNCHANGED <<inner, bag_value, writer, bag_init, written>>
    /\ UNCHANGED vars

\* The concurrent counter: clones and with.
NextCount ==
    \/ \E t \in BagUsers, h \in 1..MaxBags : BagClone(t, h)
    \/ \E t \in BagUsers, h \in 1..MaxBags : StartWith(t, h)
    \/ \E t \in BagUsers : ClosureLoad(t)
    \/ \E t \in BagUsers : WriteRet(t)

SpecCount == InitBag /\ [][NextCount]_allVars

NextBag ==
    \/ \E t \in BagUsers, h \in 1..MaxBags : BagClone(t, h)
    \/ \E t \in BagUsers, h \in 1..MaxBags : StartWith(t, h)
    \/ \E t \in BagUsers, h \in 1..MaxBags, x \in {0, 1} : StartWrite(t, h, x)
    \/ \E t \in BagUsers, h \in 1..MaxBags : StartRead(t, h)
    \/ \E t \in BagUsers : ClosureLoad(t)
    \/ \E t \in BagUsers : WriteRet(t)
    \/ \E t \in BagUsers : ReadRet(t)

SpecBag == InitBag /\ [][NextBag]_allVars

\* ---- properties ---------------------------------------------------------------
\* Thread t's running call returns (or ends in a panic) in this step.
Returns(t) == pc[t] \notin {"idle", "dead"} /\ pc'[t] \in {"idle", "dead"}

\* Thread t is inside take_ownership on cell c, past the freeze check.
Taking(t, c) == pc[t] \in {"to_freeze", "to_set"} /\ cur[t] = c

\* C1: the payload is only ever used or torn down by the thread the record
\* names as owner: no thread holds a reference an accessor returned, and none
\* has just run the payload's teardown, while the record names another thread.
C1_OnlyOwnerTouchesPayload ==
    \A c \in Cells :
        /\ \A t \in Threads : refs[c][t] # "none" => thread_id[c] = t
        /\ (last.c = c /\ last.op = "drop" /\ torn_by[c] = last.t)
               => thread_id[c] = last.t

\* C2: at most one take_ownership on a cell returns Ok: the freeze flag, once
\* true, stays true; a take_ownership that finds it true returns Err; and Ok is
\* returned only on a cell created unfrozen on which no call returned Ok before.
C2_SingleTransfer ==
    [][\A c \in Cells :
          /\ freeze[c] => freeze'[c]
          /\ ok_takes'[c] <= 1
          /\ \A t \in Threads :
                (Returns(t) /\ op[t] = "take_ownership" /\ cur[t] = c) =>
                    /\ last'.op = "take_ownership" /\ last'.t = t /\ last'.c = c
                    /\ last'.res \in {"Ok", "Err"}
                    /\ (init_freeze[c] \/ ok_takes[c] > 0) => last'.res = "Err"
                    /\ last'.res = "Ok" => freeze'[c]]_vars

\* A later take_ownership has returned Err on a cell whose ownership was taken.
C2_Witness ==
    /\ last.op = "take_ownership"
    /\ last.res = "Err"
    /\ ~init_freeze[last.c]
    /\ ok_takes[last.c] = 1

\* C3: take_ownership calls racing on an unfrozen cell are serialized by the
\* mutex: at most one thread is inside the critical section, at most one call
\* returns Ok, a call returns Err only when another has won or is past the
\* check, and once a call has returned and none is past the check exactly one
\* has returned Ok and the record names that thread as owner.
C3_RaceHasOneWinner ==
    \A c \in Cells :
        /\ Cardinality({t \in Threads : pc[t] \in {"to_check", "to_freeze", "to_set"}
                                         /\ cur[t] = c}) <= 1
        /\ ok_takes[c] <= 1
        /\ ok_takes[c] = 1 => thread_id[c] = taker[c] /\ freeze[c]
        /\ (last.op = "take_ownership" /\ last.c = c /\ ~init_freeze[c]) =>
              /\ last.res = "Err" =>
                    ok_takes[c] = 1 \/ \E u \in Threads : u # last.t /\ Taking(u, c)
              /\ (~\E u \in Threads : Taking(u, c)) =>
                    /\ ok_takes[c] = 1
                    /\ thread_id[c] = taker[c]
                    /\ last.res = "Ok" => last.t = taker[c]

\* One racer has returned Ok while another waits for the mutex.
C3_Witness ==
    /\ last.op = "take_ownership"
    /\ last.res = "Ok"
    /\ \E u \in Threads : u # last.t /\ pc[u] = "to_lock" /\ cur[u] = last.c

\* C4: on a cell created unfrozen the first take_ownership to reach the freeze
\* check succeeds (Err is returned only after another call got past the check),
\* and every is_valid or try_get that begins after a take_ownership by U has
\* returned Ok succeeds exactly when it is called by U.
C4_TransferPinsToTaker ==
    [][\A t \in Threads :
          LET c == cur[t] IN
          /\ (Returns(t) /\ op[t] = "take_ownership" /\ ~init_freeze[c]
                  /\ last'.res = "Err") =>
                 ok_takes[c] = 1 \/ \E u \in Threads : u # t /\ Taking(u, c)
          /\ (Returns(t) /\ op[t] \in {"is_valid", "try_get"} /\ after_take[t]) =>
                 /\ taker[c] \in Threads
                 /\ last'.res \in {"true", "Ok"} <=> t = taker[c]
                 /\ last'.res \in {"false", "Err"} <=> t # taker[c]]_vars

\* After thread U, not the creator, took ownership, a call of is_valid or
\* try_get by the creator has failed.
C4_Witness ==
    /\ last.op \in {"is_valid", "try_get"}
    /\ last.res \in {"false", "Err"}
    /\ last.t = creator[last.c]
    /\ ~init_freeze[last.c]
    /\ ok_takes[last.c] = 1
    /\ taker[last.c] # creator[last.c]

\* C5: on a cell created frozen every take_ownership returns Err, the record
\* keeps naming the creator, and try_get by any other thread returns Err.
C5_FrozenStaysWithCreator ==
    \A c \in Cells :
        init_freeze[c] =>
            /\ freeze[c]
            /\ thread_id[c] = creator[c]
            /\ ok_takes[c] = 0
            /\ (last.c = c /\ last.op = "take_ownership") => last.res = "Err"
            /\ (last.c = c /\ last.op = "try_get") =>
                   (last.res = "Err" <=> last.t # creator[c])

\* On a frozen cell a thread other than the creator was refused ownership.
C5_Witness ==
    /\ init_freeze[last.c]
    /\ last.op = "take_ownership"
    /\ last.res = "Err"
    /\ last.t # creator[last.c]
    /\ holder[last.c] = last.t

\* The checked operations, and those among them and among the unchecked ones
\* that need the cell exclusively.
Checked == {"try_get", "try_get_mut", "try_into_inner"}
Exclusive == {"get_mut", "try_get_mut", "into_inner", "try_into_inner", "drop"}

\* C6: moving the cell to another thread changes neither field of the record,
\* and as long as no take_ownership has returned Ok checked access succeeds
\* exactly on the creator, wherever the cell has been moved.
C6_MoveKeepsRecord ==
    [][\A c \in Cells :
          /\ holder'[c] # holder[c] =>
                 /\ freeze'[c] = freeze[c]
                 /\ thread_id'[c] = thread_id[c]
                 /\ value'[c] = value[c]
          /\ \A t \in Threads :
                (Returns(t) /\ cur[t] = c /\ op[t] \in Checked /\ ok_takes[c] = 0) =>
                    /\ last'.res \in {"Ok", "Err"}
                    /\ last'.res = "Ok" <=> t = creator[c]]_vars

\* The cell was moved to a thread that is not the creator, nobody took
\* ownership, and checked access on the receiving thread was rejected.
C6_Witness ==
    /\ holder[last.c] # creator[last.c]
    /\ last.t = holder[last.c]
    /\ last.op \in Checked
    /\ last.res = "Err"
    /\ ok_takes[last.c] = 0
    /\ thread_id[last.c] = creator[last.c]

\* C7: try_get and try_get_mut never panic; they return Err exactly when the
\* is_valid they call finds that the record names another thread, and that
\* verdict is the record's: for try_get_mut, which has the cell exclusively,
\* the record as it is now (so the second check, in get_mut, never fires); for
\* try_get the record as it is now or as it was before a concurrent transfer.
C7_CheckedNeverAbort ==
    [][\A t \in Threads :
          LET c == cur[t] IN
          /\ (pc[t] \in {"ret", "ret2"} /\ op[t] \in {"try_get", "try_get_mut"}) =>
                 \/ owner[t] = thread_id[c]
                 \/ op[t] = "try_get" /\ owner[t] = creator[c] /\ ok_takes[c] = 1
          /\ (pc[t] = "ret2" /\ op[t] = "try_get_mut") => Valid(t)
          /\ (Returns(t) /\ op[t] \in {"try_get", "try_get_mut"}) =>
                 /\ pc'[t] = "idle"
                 /\ last'.res \in {"Ok", "Err"}
                 /\ last'.res = "Err" <=> owner[t] # t
                 /\ last'.res = "Ok" => refs'[c][t] # "none"]_vars

\* try_get_mut passed both owner checks and returned the reference.
C7_Witness ==
    /\ last.op = "try_get_mut"
    /\ last.res = "Ok"
    /\ refs[last.c][last.t] = "mut"

\* C8: get, get_mut and into_inner end in a panic (an abort of the process when
\* the unwinding drop panics too) exactly when the is_valid they call finds
\* that the record names another thread, and return normally otherwise; for
\* get_mut and into_inner, which have the cell exclusively, that is exactly
\* when the record names another thread now.
C8_UncheckedAbortIffInvalid ==
    [][\A t \in Threads :
          LET c == cur[t] IN
          (Returns(t) /\ op[t] \in {"get", "get_mut", "into_inner"}) =>
              /\ op[t] \in Exclusive => owner[t] = thread_id[c]
              /\ owner[t] = thread_id[c] \/ (owner[t] = creator[c] /\ ok_takes[c] = 1)
              /\ last'.res \in {"panic", "abort"} <=> owner[t] # t
              /\ last'.res = "Ok" <=> owner[t] = t
              /\ pc'[t] = "dead" <=> owner[t] # t
              /\ (owner[t] = t /\ op[t] = "get") => refs'[c][t] = "shared"
              /\ (owner[t] = t /\ op[t] = "get_mut") => refs'[c][t] = "mut"
              /\ (owner[t] = t /\ op[t] = "into_inner") =>
                     last'.val = {value[c]} /\ state'[c] = "moved_out"
              /\ owner[t] # t => refs'[c][t] = "none" /\ last'.val = {}]_vars

\* An unchecked accessor was called by a thread that is not the owner and
\* panicked.
C8_Witness ==
    /\ last.op \in {"get", "get_mut", "into_inner"}
    /\ last.res = "panic"
    /\ pc[last.t] = "dead"
    /\ thread_id[last.c] # last.t

\* C9: dropping a cell whose payload needs drop tears the payload down when the
\* caller is the recorded owner and panics, leaving the payload alone, on any
\* other thread; dropping a cell whose payload needs no drop returns normally
\* on every thread and runs no teardown.
C9_DropOnlyOnOwner ==
    \A c \in Cells :
        (last.op = "drop" /\ last.c = c) =>
            /\ state[c] = "dropped"
            /\ (needs_drop /\ last.t = thread_id[c]) =>
                   /\ last.res = "Ok"
                   /\ torn_by[c] = last.t
                   /\ teardowns[c] = 1
            /\ (needs_drop /\ last.t # thread_id[c]) =>
                   /\ last.res = "panic"
                   /\ pc[last.t] = "dead"
                   /\ torn_by[c] = NoThread
                   /\ teardowns[c] = 0
            /\ ~needs_drop =>
                   /\ last.res = "Ok"
                   /\ torn_by[c] = NoThread
                   /\ teardowns[c] = 0

\* A cell whose payload needs drop was dropped on a thread that is not the
\* owner: the drop panicked.
C9_Witness ==
    /\ last.op = "drop"
    /\ needs_drop
    /\ last.t # thread_id[last.c]
    /\ last.res = "panic"

\* C10: try_into_inner never panics; called by the recorded owner it returns
\* Ok with the payload; called by any other thread it returns Err and the cell
\* stays live with the caller, payload and record unchanged.
C10_TryIntoInner ==
    [][\A t \in Threads :
          LET c == cur[t] IN
          /\ (pc[t] = "ret2" /\ op[t] = "try_into_inner") => Valid(t)
          /\ (Returns(t) /\ op[t] = "try_into_inner") =>
                 /\ pc'[t] = "idle"
                 /\ ~aborted'
                 /\ t = thread_id[c] =>
                        /\ last'.res = "Ok"
                        /\ last'.val = {value[c]}
                        /\ state'[c] = "moved_out"
                 /\ t # thread_id[c] =>
                        /\ last'.res = "Err"
                        /\ last'.val = {}
                        /\ state'[c] = "live"
                        /\ holder'[c] = t
                        /\ HasExclusive(t, c)'
                 /\ value'[c] = value[c]
                 /\ freeze'[c] = freeze[c]
                 /\ thread_id'[c] = thread_id[c]
                 /\ teardowns'[c] = teardowns[c]]_vars

\* try_into_inner was called by a thread that is not the owner: it returned
\* Err and the cell is still live.
C10_Witness ==
    /\ last.op = "try_into_inner"
    /\ last.res = "Err"
    /\ last.t # thread_id[last.c]
    /\ state[last.c] = "live"

\* C11: a clone made by the recorded owner is a new cell with a record of its
\* own, unfrozen, unlocked and naming the cloning thread, whatever the freeze
\* flag of the original, whose record the clone leaves alone; and no step of a
\* take_ownership on one cell changes the record or the mutex of another.
C11_CloneIsIndependent ==
    [][/\ \A t \in Threads :
             (Returns(t) /\ op[t] = "clone") =>
                 LET c == cur[t] IN
                 /\ t = thread_id[c] => last'.res = "Ok"
                 /\ last'.res = "Ok" =>
                        \E n \in Cells \ {c} :
                            /\ state[n] = "absent" /\ state'[n] = "live"
                            /\ thread_id'[n] = t
                            /\ ~freeze'[n]
                            /\ mutex'[n] = NoThread
                            /\ holder'[n] = t
                            /\ value'[n] = value[c]
                            /\ ok_takes'[n] = 0
                 /\ freeze'[c] = freeze[c]
                 /\ thread_id'[c] = thread_id[c]
       /\ \A t \in Threads, d \in Cells :
             (op[t] = "take_ownership" /\ pc'[t] # pc[t] /\ d # cur[t]) =>
                 /\ freeze'[d] = freeze[d]
                 /\ thread_id'[d] = thread_id[d]
                 /\ mutex'[d] = mutex[d]]_vars

\* The clone of a frozen cell was taken over by another thread, and the
\* original is still frozen and still its creator's.
C11_Witness ==
    /\ last.op = "take_ownership"
    /\ last.res = "Ok"
    /\ last.c # 1
    /\ creator[last.c] = 1
    /\ last.t # 1
    /\ thread_id[last.c] = last.t
    /\ init_freeze[1] /\ freeze[1]
    /\ thread_id[1] = 1
    /\ ok_takes[1] = 0

\* C12: the record changes only in a step of a take_ownership that is past the
\* freeze check, on a cell created unfrozen that nobody took yet, and such a
\* call returns Ok; a take_ownership that returns Err returns from the check,
\* and no step of is_valid, get, try_get or try_get_mut changes either field.
C12_RecordFrame ==
    [][\A c \in Cells :
          /\ (freeze'[c] # freeze[c] \/ thread_id'[c] # thread_id[c]) =>
                 \E t \in Threads :
                     /\ op[t] = "take_ownership" /\ cur[t] = c
                     /\ pc[t] \in {"to_freeze", "to_set"}
                     /\ pc'[t] # pc[t]
                     /\ ~init_freeze[c]
                     /\ ok_takes[c] = 0
          /\ \A t \in Threads :
                 /\ (Returns(t) /\ op[t] = "take_ownership" /\ cur[t] = c) =>
                        /\ last'.res = "Err" <=> pc[t] = "to_check"
                        /\ last'.res = "Ok" <=> pc[t] = "to_set"
                        /\ last'.res = "Err" =>
                               freeze'[c] = freeze[c] /\ thread_id'[c] = thread_id[c]
                 /\ (op[t] \in {"is_valid", "get", "try_get", "try_get_mut"}
                         /\ pc'[t] # pc[t]) =>
                        freeze' = freeze /\ thread_id' = thread_id]_vars

\* A thread that was lent the cell after another took it over was refused, and
\* the record still names the taker.
C12_Witness ==
    /\ last.op = "take_ownership"
    /\ last.res = "Err"
    /\ holder[last.c] # last.t
    /\ ok_takes[last.c] = 1
    /\ taker[last.c] # last.t
    /\ thread_id[last.c] = taker[last.c]
    /\ freeze[last.c]

\* C13: right after iCell::new(v, f) the record names the creating thread, its
\* freeze flag is f and its mutex is free, for every payload; and until a
\* take_ownership gets past the check the record stays so, and is_valid
\* returns true on the creator and false on every other thread.
C13_NewBindsCreator ==
    \A c \in Cells :
        /\ (last.op = "new" /\ last.c = c) =>
               /\ state[c] = "live"
               /\ creator[c] = last.t
               /\ thread_id[c] = last.t
               /\ freeze[c] = init_freeze[c]
               /\ mutex[c] = NoThread
               /\ \A u \in Threads : (u = RecordedOwner(c)) <=> (u = last.t)
        /\ (ok_takes[c] = 0 /\ ~\E u \in Threads : Taking(u, c)) =>
               /\ thread_id[c] = creator[c]
               /\ freeze[c] = init_freeze[c]
        /\ (last.op = "is_valid" /\ last.c = c /\ ok_takes[c] = 0) =>
               /\ last.res \in {"true", "false"}
               /\ last.res = "true" <=> last.t = creator[c]

\* Before any take_ownership, is_valid was called on a thread other than the
\* creator and returned false.
C13_Witness ==
    /\ last.op = "is_valid"
    /\ last.res = "false"
    /\ last.t # creator[last.c]
    /\ ok_takes[last.c] = 0
    /\ \A u \in Threads : pc[u] = "idle"

\* The record of cell c can no longer change under the running call of thread
\* t: the cell was created frozen, or the one transfer was over when the call
\* (for a comparison: the get now running) began, or none has been made yet.
Settled(t, c) == init_freeze[c] \/ after_take[t] \/ ok_takes[c] = 0

\* The owner the running is_valid of thread t read from cell c is the record's:
\* the one it names now, or the creator it named before a concurrent transfer.
ReadFromRecord(t, c) ==
    owner[t] = thread_id[c] \/ (owner[t] = creator[c] /\ ok_takes[c] = 1)

\* C15: Debug formatting returns normally on every thread and changes nothing.
\* Called by the recorded owner it writes the payload; called by any other
\* thread it writes "<invalid thread>" in the payload's place, and the payload
\* is not in what it wrote.  (A call overlapping the transfer is answered by
\* the record as is_valid read it.)
C15_DebugNeverAborts ==
    [][\A t \in Threads :
          LET c == cur[t] IN
          (Returns(t) /\ op[t] = "fmt_debug") =>
              /\ pc'[t] = "idle"
              /\ ~aborted'
              /\ last'.res = "Ok"
              /\ ReadFromRecord(t, c)
              /\ last'.val = {IF owner[t] = t
                              THEN "Fragile { value: " \o Bool(value[c]) \o " }"
                              ELSE "Fragile { value: <invalid thread> }"}
              /\ t = thread_id[c] => owner[t] = t
              /\ (t # thread_id[c] /\ Settled(t, c)) => owner[t] # t
              /\ value' = value /\ freeze' = freeze /\ thread_id' = thread_id
              /\ refs' = refs /\ state' = state]_vars

\* Debug was called on a thread that is not the recorded owner and wrote the
\* placeholder.
C15_Witness ==
    /\ last.op = "fmt_debug"
    /\ last.res = "Ok"
    /\ last.t # thread_id[last.c]
    /\ last.val = {"Fragile { value: <invalid thread> }"}
    /\ pc[last.t] = "idle"

\* C16: the payload is only ever reached from the thread that created the cell
\* (no other thread holds a reference an accessor returned), and every
\* operation another thread calls on a reference it was lent fails.
C16_OnlyCreatorAccesses ==
    \A c \in Cells :
        /\ \A t \in Threads : refs[c][t] # "none" => t = creator[c]
        /\ (last.c = c /\ last.t # creator[c] /\ last.t \in sharers[c]
                /\ last.op \in {"take_ownership", "is_valid", "get", "try_get"}) =>
               last.res \in {"Err", "false", "panic"}

\* C19: a cell with a payload that needs drop, created unfrozen on thread A,
\* taken over by thread B and then handed back to A: on A try_get returns Err,
\* and the cell then goes out of scope on A without a panic or an abort.
C19_HandBackCompletes ==
    [][\A t \in Threads :
          LET c == cur[t] IN
          (/\ Returns(t) /\ after_take[t]
           /\ needs_drop /\ ~init_freeze[c]
           /\ ok_takes[c] = 1 /\ taker[c] # creator[c]
           /\ t = creator[c] /\ holder[c] = t) =>
              /\ op[t] = "try_get" => last'.res = "Err"
              /\ op[t] = "drop" =>
                     /\ last'.res = "Ok"
                     /\ pc'[t] = "idle"
                     /\ ~aborted']_vars

\* C20: a comparison (eq, partial_cmp, lt, le, gt, ge, cmp) runs get on self and
\* then on other, and Display runs get on self: the call panics, ending the
\* calling thread, exactly when a get finds that the record names another
\* thread; it returns normally when the caller is the recorded owner of every
\* operand, and then the result is the payload type's own comparison of self's
\* payload with other's (for Display: the payload as its own Display writes it);
\* and it panics when the caller is not the recorded owner of the operand being
\* checked.  (A get overlapping the transfer is answered by the record as
\* is_valid read it.)
C20_UncheckedTraits ==
    [][\A t \in Threads :
          LET c == cur[t]
              d == other[t]
              x == Checking(t)
          IN
          /\ (Returns(t) /\ op[t] = "cmp") =>
                 /\ ReadFromRecord(t, x)
                 /\ last'.res \in {"Ok", "panic"}
                 /\ last'.res = "panic" <=> owner[t] # t
                 /\ pc'[t] = "dead" <=> owner[t] # t
                 /\ pc[t] = "ret" => owner[t] # t
                 /\ (t = thread_id[c] /\ t = thread_id[d]) => last'.res = "Ok"
                 /\ (t # thread_id[x] /\ Settled(t, x)) => last'.res = "panic"
                 /\ last'.res = "Ok" =>
                        /\ last'.op \in CmpKinds
                        /\ last'.val = {PayloadCmp(last'.op, value[c], value[d])}
                 /\ last'.res = "panic" => last'.val = {}
                 /\ ~aborted'
          /\ (Returns(t) /\ op[t] = "fmt_display") =>
                 /\ ReadFromRecord(t, c)
                 /\ last'.res \in {"Ok", "panic"}
                 /\ last'.res = "panic" <=> owner[t] # t
                 /\ pc'[t] = "dead" <=> owner[t] # t
                 /\ t = thread_id[c] => last'.res = "Ok"
                 /\ (t # thread_id[c] /\ Settled(t, c)) => last'.res = "panic"
                 /\ last'.res = "Ok" => last'.val = {Bool(value[c])}
                 /\ last'.res = "panic" => last'.val = {}
                 /\ ~aborted']_vars

\* A comparison called by the recorded owner of self panicked: the caller is
\* not the recorded owner of other, which another thread took over.
C20_Witness ==
    /\ last.op = "cmp"
    /\ last.res = "panic"
    /\ pc[last.t] = "dead"
    /\ thread_id[last.c] = last.t
    /\ \E d \in Cells : d # last.c /\ ok_takes[d] = 1 /\ taker[d] # last.t

\* Thread t is inside a call.
InCall(t) == pc[t] \notin {"idle", "dead"}

\* The positions at which a thread holds a record's mutex: inside
\* take_ownership, between the lock and the return.
HoldsGuard(t) == pc[t] \in {"to_check", "to_freeze", "to_set"}

\* C14 (lock discipline): a mutex is held only by a live thread inside
\* take_ownership on that cell, between reading and writing the two fields (no
\* payload clone, comparison, formatting or teardown runs there); a thread
\* holds at most one mutex and waits for none while it holds one; and a thread
\* that waits for a mutex waits for a thread that can take a step.
C14_LockDiscipline ==
    /\ \A c \in Cells :
          mutex[c] # NoThread =>
              /\ mutex[c] \in Threads
              /\ HoldsGuard(mutex[c])
              /\ op[mutex[c]] = "take_ownership"
              /\ cur[mutex[c]] = c
    /\ \A t \in Threads :
          /\ HoldsGuard(t) => mutex[cur[t]] = t
          /\ Cardinality({c \in Cells : mutex[c] = t}) <= 1
          /\ (~aborted /\ InCall(t)) =>
                 \/ ENABLED Step(t)
                 \/ /\ pc[t] \in {"to_lock", "iv", "iv2"}
                    /\ mutex[Checking(t)] \in Threads \ {t}
                    /\ ENABLED Step(mutex[Checking(t)])

\* C14: no call blocks for ever.  The lock discipline holds in every state, and
\* under fair scheduling every call that has begun returns or panics: the
\* program makes finitely many calls, and from some point on no thread is
\* inside one (or the process was aborted by a panic while panicking).
C14_NoCallBlocks ==
    /\ []C14_LockDiscipline
    /\ <>[](aborted \/ \A t \in Threads : ~InCall(t))

\* A comparison of two different cells waits for the mutex of its second
\* operand, which a take_ownership on another thread holds.
C14_Witness ==
    \E t \in Threads :
        /\ op[t] = "cmp" /\ pc[t] = "iv2"
        /\ cur[t] # other[t]
        /\ mutex[other[t]] \in Threads \ {t}

\* Calls completed by the threads of S on the bag.
RECURSIVE Completed(_)
Completed(S) ==
    IF S = {} THEN 0
    ELSE LET t == CHOOSE u \in S : TRUE IN calls[t] + Completed(S \ {t})

\* The threads whose closure runs on allocation i.
InClosure(i) == {t \in BagUsers : bpc[t] \in {"closure", "store"} /\ inner[bh[t]] = i}

\* C17: with runs its closure with exclusive access: at most one closure runs
\* on the value at a time, and when the threads only call with(|v| *v += 1)
\* on clones of one bag, the value seen through every clone is the initial
\* value plus the number of calls completed -- so that no update is lost, and
\* once each of the N threads has made its M calls the value is the initial
\* value plus N*M.
C17_NoLostUpdate ==
    /\ \A i \in Inners : Cardinality(InClosure(i)) <= 1
    /\ \A h \in Bags : bag_value[inner[h]] = bag_init + Completed(BagUsers)
    /\ (\A t \in BagUsers : calls[t] = BagCalls)
         => \A h \in Bags : bag_value[inner[h]] = bag_init + BagThreads * BagCalls

C17_Witness ==
    /\ \A t \in BagUsers : calls[t] = BagCalls
    /\ Len(inner) > 1
    /\ written.h # 1
    /\ bag_value[inner[1]] = bag_init + BagThreads * BagCalls

\* C18: all clones of an iBag refer to one value: whenever a write (write guard
\* or with) has completed, the value behind every clone is the one it wrote; a
\* load or with_read through any clone returns the value of the last completed
\* write and changes nothing.
C18_ClonesShareValue ==
    [][/\ \A t \in BagUsers :
             (bpc[t] = "store" /\ bpc'[t] = "idle")
                 => \A h \in 1..Len(inner') : bag_value'[inner'[h]] = written'.v
       /\ \A t \in BagUsers :
             (bpc[t] = "read" /\ bpc'[t] = "idle")
                 => /\ blast'.op \in ReadKinds
                    /\ blast'.res = written.v
                    /\ bag_value' = bag_value]_allVars

C18_Witness ==
    /\ blast.op \in ReadKinds
    /\ blast.h # written.h
    /\ blast.res = written.v
    /\ written.v # bag_init
    /\ blast.t # 1

\* C21: the record of a cell names its creator until the one successful
\* take_ownership writes the caller's id, and the thread that made that call
\* from then on: at most one call succeeds, and a record whose freeze flag is
\* false names the creator.
C21_OwnerIsCreatorOrTaker ==
    \A c \in Cells :
        /\ ok_takes[c] <= 1
        /\ ok_takes[c] = 0 => thread_id[c] = creator[c] /\ taker[c] = NoThread
        /\ ok_takes[c] = 1 => thread_id[c] = taker[c] /\ taker[c] \in Threads
        /\ thread_id[c] \in {creator[c], taker[c]}
        /\ ~freeze[c] => thread_id[c] = creator[c]

\* One cell was taken over by a thread that did not create it while another,
\* unfrozen, is still its creator's.
C21_Witness ==
    \E c, d \in Cells :
        /\ c # d
        /\ ok_takes[c] = 1
        /\ thread_id[c] = taker[c]
        /\ taker[c] # creator[c]
        /\ state[d] = "live"
        /\ ~freeze[d]
        /\ thread_id[d] = creator[d]

\* C22: the cell tears its payload down at most once, and only in a drop of a
\* live cell, called on the thread the record names, for a payload that needs
\* drop; into_inner and try_into_inner that return Ok hand the payload out
\* without a teardown, and a cell whose payload was moved out, or that was
\* dropped, is never dropped (again) and runs no teardown.
C22_TeardownAtMostOnce ==
    [][\A c \in Cells :
          /\ teardowns'[c] <= 1
          /\ teardowns'[c] # teardowns[c] =>
                 \E t \in Threads :
                     /\ Returns(t) /\ op[t] = "drop" /\ cur[t] = c
                     /\ needs_drop
                     /\ t = thread_id[c]
                     /\ torn_by'[c] = t
                     /\ state[c] = "live" /\ state'[c] = "dropped"
          /\ \A t \in Threads :
                 (Returns(t) /\ cur[t] = c /\ op[t] \in {"into_inner", "try_into_inner"}
                      /\ last'.res = "Ok") =>
                     /\ state'[c] = "moved_out"
                     /\ last'.val = {value[c]}
                     /\ teardowns'[c] = 0
                     /\ torn_by'[c] = NoThread
          /\ state[c] \in {"moved_out", "dropped"} =>
                 /\ state'[c] = state[c]
                 /\ teardowns'[c] = teardowns[c]
                 /\ torn_by'[c] = torn_by[c]
                 /\ \A t \in Threads : pc'[t] \notin {"idle", "dead"} => cur'[t] # c]_vars

\* The thread that took the cell over moved a payload that needs drop out of
\* it: no teardown was run.
C22_Witness ==
    /\ last.op \in {"into_inner", "try_into_inner"}
    /\ last.res = "Ok"
    /\ needs_drop
    /\ state[last.c] = "moved_out"
    /\ teardowns[last.c] = 0
    /\ last.t = taker[last.c]
    /\ last.t # creator[last.c]

\* The methods that lock the record and never panic by themselves.
Unpanicking == {"is_valid", "take_ownership", "try_get", "try_get_mut"}

\* C23: no thread panics while it holds the guard of a record, so that the
\* mutex is never poisoned: whoever holds it is alive and inside the critical
\* section of take_ownership on that cell; and whatever panics the unchecked
\* accessors and drop have ended other threads in, is_valid, take_ownership,
\* try_get and try_get_mut on the cell return their normal results -- is_valid
\* and the checked accessors the verdict on the owner they read, take_ownership
\* Ok from the end of the critical section or Err from the freeze check.
C23_MutexNeverPoisoned ==
    [][/\ \A c \in Cells :
             /\ ~Poisoned(c)'
             /\ mutex'[c] \in Threads =>
                    /\ pc'[mutex'[c]] \in {"to_check", "to_freeze", "to_set"}
                    /\ cur'[mutex'[c]] = c
       /\ \A t \in Threads :
             /\ (pc[t] # "dead" /\ pc'[t] = "dead") =>
                    /\ \A c \in Cells : mutex[c] # t /\ mutex'[c] # t
                    /\ op[t] \notin Unpanicking
             /\ (Returns(t) /\ op[t] \in Unpanicking) =>
                    /\ pc'[t] = "idle"
                    /\ ~aborted'
                    /\ last'.t = t /\ last'.op = op[t]
                    /\ op[t] = "is_valid" =>
                           last'.res = (IF owner[t] = t THEN "true" ELSE "false")
                    /\ op[t] \in {"try_get", "try_get_mut"} =>
                           last'.res = (IF owner[t] = t THEN "Ok" ELSE "Err")
                    /\ op[t] = "take_ownership" =>
                           last'.res = (IF pc[t] = "to_set" THEN "Ok" ELSE "Err")]_vars

\* A thread that was lent the cell panicked in an unchecked accessor; its
\* borrow ended with it, and the try_get_mut the holder called then (it needs
\* the cell unborrowed) returned the reference.
C23_Witness ==
    /\ last.op = "try_get_mut"
    /\ last.res = "Ok"
    /\ last.t = holder[last.c]
    /\ state[last.c] = "live"
    /\ \E u \in Threads : u # last.t /\ pc[u] = "dead"
    /\ ~aborted

\* C24: a clone called on a thread the record does not name panics: a thread
\* that is not the owner does not become it while its clone runs, the owner
\* that get's is_valid reads is the record's, and a call that read another
\* thread's id ends in a panic of the calling thread (not of the process) that
\* makes no cell and changes neither a payload nor a record; a call the record
\* cannot change under panics exactly when the record names another thread.
C24_CloneOnWrongThread ==
    [][\A t \in Threads :
          LET c == cur[t] IN
          /\ (op[t] = "clone" /\ op'[t] = "clone" /\ thread_id[c] # t) =>
                 thread_id'[c] # t
          /\ (op[t] = "clone" /\ pc[t] = "iv" /\ pc'[t] = "ret") =>
                 owner'[t] = thread_id[c]
          /\ (op[t] = "clone" /\ pc[t] = "ret") =>
                 /\ ReadFromRecord(t, c)
                 /\ owner[t] # t => thread_id[c] # t
                 /\ Settled(t, c) => owner[t] = thread_id[c]
          /\ (Returns(t) /\ op[t] = "clone") =>
                 /\ last'.res = "panic" <=> owner[t] # t
                 /\ Settled(t, c) => (last'.res = "panic" <=> thread_id[c] # t)
                 /\ owner[t] # t =>
                        /\ pc'[t] = "dead"
                        /\ ~aborted'
                        /\ last'.val = {}
                        /\ state' = state
                        /\ value' = value
                        /\ freeze' = freeze
                        /\ thread_id' = thread_id
                        /\ mutex' = mutex
                        /\ holder' = holder
                        /\ creator' = creator
                        /\ teardowns' = teardowns]_vars

\* A thread that was lent a cell another thread owns called clone: it
\* panicked, and cell 1 is still the only cell.
C24_Witness ==
    /\ last.op = "clone"
    /\ last.res = "panic"
    /\ pc[last.t] = "dead"
    /\ thread_id[last.c] # last.t
    /\ holder[last.c] # last.t
    /\ \A n \in Cells \ {1} : state[n] = "absent"
    /\ state[1] = "live"

====
